---- MODULE Spec2Model ----
(***************************************************************************)
(* State-machine model of the llol LIDAR-inertial odometry core:           *)
(*   - SweepGrid  (grid.cpp, kept as src/unnamed/part_001, lines 1-240)    *)
(*   - ImuTrajectory / ImuPreintegration (src/sv/llol/imu.cpp)             *)
(*   - GicpCost   (src/sv/llol/cost.cpp)                                   *)
(* Floating point scores are modelled by small integers plus the value NaN *)
(* (every ordered comparison with NaN is false, as in IEEE-754).  Times    *)
(* are integer ticks and rotations are angles about one axis.  Of the      *)
(* preintegration the members n, duration and gamma are kept; alpha, beta, *)
(* F, P and U are numeric only and left out.  A failed glog CHECK is       *)
(* modelled as the call ending with status "rejected"/"abort" at the point *)
(* of the CHECK, with the state as the code left it at that point.         *)
(* Spec explores SweepGrid::Add; SpecImu explores ImuTrajectory::Predict   *)
(* and the GicpCost calls on a filtered grid.                              *)
(***************************************************************************)
EXTENDS Integers, Sequences, FiniteSets, TLC

\* ---------------------------------------------------------------- bounds
MaxRows == 2          \* grid rows (score.rows)
MaxCalls == 2         \* calls of SweepGrid::Add explored in one behaviour
MaxTime == 4          \* latest IMU sample time and latest Predict t0
MaxBuf == 3           \* most samples in the IMU buffer
MaxUpdates == 2       \* UpdateTraj calls explored in one behaviour

\* grid widths explored (score.cols)
GridCols == {3}

\* input alphabets
NaN == -1                         \* kNaNF
ScoreVals == {NaN, 0, 1}       \* curvature values a scan can produce
MaxScores == {0, 1, 2}             \* GridParams.max_score
CellCols == {1, 2}                \* GridParams.cell_cols (w_c)
CellRows == {2}                   \* GridParams.cell_rows (h_c)
Gsizes == {0, 1}                  \* gsize argument of Add (<= 0: one chunk)
NumStates == {2, 3}               \* sizes of ImuTrajectory::states
Dts == {1, 2}                     \* dt argument of Predict
GyrBias == {1}                    \* ImuTrajectory::bias (gyro part)
GoodCounts == {2}                 \* good cells of the grid handed to GicpCost
kResidualDim == 3
TrajSizes == {2, 3, 4}            \* trajectory sizes explored with UpdateTraj
ExtRots == {0, 1}                 \* rotations of the extrinsic (quarter turns)
ErrRots == {0, 1}                 \* r0 of the solver's correction (quarter turns)
ErrPos == {<<0, 0>>, <<12, 0>>}   \* p0 of the solver's correction

VARIABLES
  \* ---- SweepGrid
  cell_size,    \* [width, height]
  max_score,
  nms,
  score,        \* score image: score[r][c], r in 0..rows-1, c in 0..cols-1
  col_rg,       \* [start, end): active column range, in grid cells
  matches,      \* cell array, indexed by Px2Ind
  add_ret,      \* outcome of the last Add: [status, n1, n2]
  last_scan,    \* the last accepted slice: [rows, col_rg] (sweep columns)
  ncalls,       \* number of Add calls made so far
  \* ---- ImuTrajectory
  buf,          \* IMU buffer: sequence of [time, gyr]
  states,       \* sequence of NavState [time, rot, pos, vel]
  bias,         \* gyro bias
  \* ---- GicpCost
  cmatches,     \* GicpCost::matches: cell indices of the collected matches
  ptraj,        \* TRUE iff GicpCost::ptraj is not null
  preint,       \* ImuPreintegration: [n, duration, gamma]
  steps,        \* the Integrate calls of the last Compute: [dt, time]
  resid,        \* residual indices written by the last operator()
  jac,          \* Jacobian blocks written by the last operator(): <<row, block>>
  call,         \* the last call on the trajectory or the cost: [op, t0, dt, status, val]
  error,        \* GicpCost::error: [r0, p0], the solver's correction
  \* ---- ImuTrajectory, continued
  T_imu_lidar,  \* extrinsic: [rot, pos]
  g_pano,       \* gravity vector
  pidx,         \* buffer index Predict used for each cell i >= 1
  nupd,         \* number of UpdateTraj calls made so far
  \* ---- GicpCost::operator() in progress
  user_gsize,   \* the constructor's argument gsize
  gsize_,       \* GicpCost::gsize_: grain of the parallel loop
  opc,          \* the operator() call: [variant, J, phase]
  tasks,        \* blocks of the parallel loop not finished: [blk, i]
  out,          \* r_ptr / J_ptr: location -> [val, by] (last value, writers)
  \* ---- SweepGrid::InterpSweep
  tfs,          \* SweepGrid::tfs: one pose <<rot, trans>> per cell edge
  sweep_tfs,    \* LidarSweep::tfs: per column [tf, n, by] (pose, writes, writer)
  interp,       \* the InterpPosesImpl call: [gsize, status]
  iblks,        \* blocks of its parallel loop not finished: [blk, i]
  \* ---- Timer
  now,          \* absl::GetCurrentTimeNanos()
  running_,
  time_ns_,     \* start time while running, elapsed time while stopped
  ran,          \* time spent running since the most recent Start
  elapsed,      \* value the last Elapsed() returned
  \* ---- OdomNode
  T_p_s_,       \* sweep-to-pano pose estimate
  init_,
  wait_for_scan0,
  num_sweeps,   \* pano_.num_sweeps()
  sent,         \* transforms the last callback broadcast, in order
  reg           \* Register in the last callback: [ran, good, sol]

gridvars == <<cell_size, max_score, nms, score, col_rg, matches, add_ret, last_scan, ncalls>>
imuvars == <<buf, states, bias>>
costvars == <<cmatches, ptraj, preint, steps, resid, jac, call>>
trajvars == <<error, T_imu_lidar, g_pano, pidx, nupd>>
parvars == <<user_gsize, gsize_, opc, tasks, out>>
interpvars == <<tfs, sweep_tfs, interp, iblks>>
timervars == <<now, running_, time_ns_, ran, elapsed>>
nodevars == <<T_p_s_, init_, wait_for_scan0, num_sweeps, sent, reg>>
vars == <<gridvars, imuvars, costvars, trajvars, parvars, interpvars, timervars, nodevars>>

\* ------------------------------------------------------------ float compare
IsNaN(x) == x = NaN
Lt(a, b) == ~IsNaN(a) /\ ~IsNaN(b) /\ a < b
Gt(a, b) == ~IsNaN(a) /\ ~IsNaN(b) /\ a > b

\* ------------------------------------------------------------ SweepGrid
\* score.rows, score.cols: fixed by the constructor
rows == MaxRows
cols == Cardinality(DOMAIN score[0])
total == rows * cols

Range(s, e) == [start |-> s, end |-> e]
RangeSize(rg) == rg.end - rg.start
\* cv::Range / int, as used at Score and Filter
RangeDiv(rg, d) == Range(rg.start \div d, rg.end \div d)

Px2Ind(px) == px[2] * cols + px[1]
\* cell state after Match::Reset() and after FilterRow accepted the cell
BadPx == <<-1, -1>>
ResetMatch == [px_g |-> BadPx, mc_g_ok |-> FALSE, mc_p_ok |-> FALSE]
GoodMatch(px) == [px_g |-> px, mc_g_ok |-> TRUE, mc_p_ok |-> FALSE]
\* GridMatch::Ok(): the cell has statistics in the sweep and in the pano
Ok(m) == m.mc_g_ok /\ m.mc_p_ok

\* SweepGrid::Check: TRUE iff all three CHECKs pass
Check(scan) ==
  /\ scan.rows = rows * cell_size.height
  /\ scan.col_rg.start = (col_rg.end * cell_size.width) % cols
  /\ scan.col_rg.end <= cols * cell_size.width

\* tbb::parallel_reduce over blocked_range(lo, hi, g) with std::plus: a range
\* longer than the grain is split in the middle, a leaf sums its rows.
RECURSIVE BlockSum(_, _, _)
BlockSum(cnt, lo, hi) == IF lo >= hi THEN 0 ELSE cnt[lo] + BlockSum(cnt, lo + 1, hi)

\* a reduction that keeps only the first block of g rows
ReduceFirstBlock(cnt, lo, hi, g) ==
  BlockSum(cnt, lo, IF hi - lo > g THEN lo + g ELSE hi)

RECURSIVE ParallelReduce(_, _, _, _)
ParallelReduce(cnt, lo, hi, g) ==
  IF hi - lo > g
  THEN LET mid == lo + (hi - lo) \div 2
       IN ParallelReduce(cnt, lo, mid, g) + ParallelReduce(cnt, mid, hi, g)
  ELSE BlockSum(cnt, lo, hi)

Grain(gsize) == IF gsize <= 0 THEN rows ELSE gsize

\* SweepGrid::ScoreRow: the row's new scores; curve[r][c] is scan.CurveAt of
\* scan-local cell c of row r
ScoreRow(sc, rg, curve, r) ==
  [c \in 0 .. cols - 1 |->
     IF rg.start <= c /\ c < rg.end THEN curve[r][c - rg.start] ELSE sc[r][c]]

ScoreRowCount(rg, curve, r) ==
  Cardinality({c \in 0 .. RangeSize(rg) - 1 : ~IsNaN(curve[r][c])})

\* SweepGrid::Score: the new score image (col_rg is updated by the caller
\* of this operator to rg) and the reduced count
ScoreImage(sc, rg, curve) == [r \in 0 .. rows - 1 |-> ScoreRow(sc, rg, curve, r)]

ScoreCount(rg, curve, gsize) ==
  ParallelReduce([r \in 0 .. rows - 1 |-> ScoreRowCount(rg, curve, r)],
                 0, rows, Grain(gsize))

\* IsCellGood with the NMS test written as m <= l && m <= r, which a NaN
\* neighbour fails
IsCellGoodNanSuppresses(sc, ms, n, px) ==
  LET m == sc[px[2]][px[1]] IN
  IF ~Lt(m, ms) THEN FALSE
  ELSE IF n
       THEN LET l == sc[px[2]][px[1] - 1]
                r == sc[px[2]][px[1] + 1]
            IN (~IsNaN(l) /\ m <= l) /\ (~IsNaN(r) /\ m <= r)
       ELSE TRUE

\* IsCellGood with the threshold test written as m <= max_score
IsCellGoodInclusive(sc, ms, n, px) ==
  LET m == sc[px[2]][px[1]] IN
  IF IsNaN(m) \/ m > ms THEN FALSE
  ELSE IF n
       THEN LET l == sc[px[2]][px[1] - 1]
                r == sc[px[2]][px[1] + 1]
            IN ~(Gt(m, l) \/ Gt(m, r))
       ELSE TRUE

\* SweepGrid::IsCellGood on score image sc, with the members max_score (ms)
\* and nms (n) passed explicitly
IsCellGood(sc, ms, n, px) ==
  LET m == sc[px[2]][px[1]] IN
  IF ~Lt(m, ms) THEN FALSE
  ELSE IF n
       THEN LET l == sc[px[2]][px[1] - 1]
                r == sc[px[2]][px[1] + 1]
            IN ~(Gt(m, l) \/ Gt(m, r))
       ELSE TRUE

\* const int pad = static_cast<int>(nms)
Pad(n) == IF n THEN 1 ELSE 0

\* SweepGrid::FilterRow: the scan-local columns c of row r that take the
\* "good" branch (mean/covariance computed, px_g set); the others are Reset
FilterRow(sc, ms, n, rg, r) ==
  {c \in 0 .. RangeSize(rg) - 1 :
     /\ Pad(n) <= c
     /\ c < RangeSize(rg) - Pad(n)
     /\ IsCellGood(sc, ms, n, <<c + rg.start, r>>)}

\* SweepGrid::Filter: FilterRow on every row; the cell array afterwards
FilterMatches(sc, rg) ==
  LET good == [r \in 0 .. rows - 1 |-> FilterRow(sc, max_score, nms, rg, r)] IN
  [i \in 0 .. total - 1 |->
     LET r == i \div cols
         c == i % cols
     IN IF rg.start <= c /\ c < rg.end
        THEN IF (c - rg.start) \in good[r]
             THEN [matches[i] EXCEPT !.px_g = <<c, r>>, !.mc_g_ok = TRUE]
             ELSE ResetMatch
        ELSE matches[i]]

FilterCount(sc, rg, gsize) ==
  ParallelReduce([r \in 0 .. rows - 1 |->
                    Cardinality(FilterRow(sc, max_score, nms, rg, r))],
                 0, rows, Grain(gsize))

\* ------------------------------------------------------------ inputs
WellFormed(scan) == scan.col_rg.start <= scan.col_rg.end

\* A scan slice: row count and column range [start, end) in sweep columns.
Slices ==
  {sl \in {[rows |-> n, col_rg |-> Range(s, e)] :
              n \in {rows * cell_size.height, rows * cell_size.height + 1},
              s \in 0 .. cols * cell_size.width,
              e \in 0 .. cols * cell_size.width + 1} : WellFormed(sl)}


\* Curvature content of a slice of k cells per row: even rows carry the
\* base row, odd rows the base row reversed.
Curves(k) ==
  {[r \in 0 .. rows - 1 |->
      [c \in 0 .. k - 1 |-> IF r % 2 = 0 THEN base[c] ELSE base[k - 1 - c]]] :
   base \in [0 .. k - 1 -> ScoreVals]}

\* ------------------------------------------------------------ actions
GridInit ==
  /\ cell_size \in {[width |-> w, height |-> h] : w \in CellCols, h \in CellRows}
  /\ max_score \in MaxScores
  /\ nms \in BOOLEAN
  /\ score \in {[r \in 0 .. rows - 1 |-> [c \in 0 .. n - 1 |-> NaN]] : n \in GridCols}
  /\ col_rg = Range(0, 0)
  /\ matches = [i \in 0 .. total - 1 |-> ResetMatch]
  /\ add_ret = [status |-> "none", n1 |-> 0, n2 |-> 0]
  /\ last_scan = [rows |-> 0, col_rg |-> Range(0, 0)]
  /\ ncalls = 0

\* SweepGrid::Add(scan, gsize) when Check(scan) passes: Score (with its
\* col_rg update), then Filter, then the pair of counts is returned
Accept(scan, curve, gsize) ==
  \E rg \in {RangeDiv(scan.col_rg, cell_size.width)} :
    \E sc \in {ScoreImage(score, rg, curve)} :
      /\ col_rg' = rg
      /\ score' = sc
      /\ matches' = FilterMatches(sc, rg)
      /\ add_ret' = [status |-> "ok",
                     n1 |-> ScoreCount(rg, curve, gsize),
                     n2 |-> FilterCount(sc, rg, gsize)]
      /\ last_scan' = scan

\* an Add that updates col_rg from the scan before Check fails
RejectAfterRange(scan) ==
  /\ add_ret' = [status |-> "rejected", n1 |-> 0, n2 |-> 0]
  /\ col_rg' = RangeDiv(scan.col_rg, cell_size.width)
  /\ UNCHANGED <<nodevars, timervars, interpvars, parvars, score, matches, last_scan>>

\* SweepGrid::Add(scan, gsize) when a CHECK of Check(scan) fails: nothing
\* after Check runs
Reject(scan) ==
  /\ add_ret' = [status |-> "rejected", n1 |-> 0, n2 |-> 0]
  /\ UNCHANGED <<nodevars, timervars, interpvars, parvars, col_rg, score, matches, last_scan>>

AddAccepted ==
  /\ ncalls < MaxCalls
  /\ ncalls' = ncalls + 1
  /\ \E scan \in Slices :
       /\ Check(scan)
       /\ \E gsize \in Gsizes,
             curve \in Curves(RangeSize(RangeDiv(scan.col_rg, cell_size.width))) :
            Accept(scan, curve, gsize)
  /\ UNCHANGED <<nodevars, timervars, interpvars, parvars, cell_size, max_score, nms, imuvars, costvars, trajvars>>

AddRejected ==
  /\ ncalls < MaxCalls
  /\ ncalls' = ncalls + 1
  /\ \E scan \in Slices : ~Check(scan) /\ Reject(scan)
  /\ UNCHANGED <<nodevars, timervars, interpvars, parvars, cell_size, max_score, nms, imuvars, costvars, trajvars>>


\* ------------------------------------------------------------------
\* ImuTrajectory (imu.cpp).  Rotations are angles about one axis, so that
\* R * exp(w * dt) is rot + w * dt; C++ index i is element i + 1 here.
ImuAt(b, i) == b[i + 1]
DeBiased(imu, bs) == [imu EXCEPT !.gyr = @ - bs]
Zero2 == <<0, 0>>
NavState0 == [time |-> 0, rot |-> 0, pos |-> Zero2, vel |-> Zero2]

\* FindNextImu: index of the first sample with time > t, or -1
FindNextImu(b, t) ==
  LET later == {i \in 0 .. Len(b) - 1 : ImuAt(b, i).time > t} IN
  IF later = {} THEN -1 ELSE CHOOSE i \in later : \A j \in later : i <= j

\* a Predict loop that catches up: it moves to the first sample that is not
\* earlier than the cell time, however many samples that skips
RECURSIVE PredictLoopCatchUp(_, _, _, _, _, _)
PredictLoopCatchUp(st, i, ibuf, t0, dt, used) ==
  IF i >= Len(st) THEN [states |-> st, ibuf |-> ibuf, used |-> used]
  ELSE LET ti == t0 + dt * i
           ahead == {j \in ibuf .. Len(buf) - 1 : ImuAt(buf, j).time >= ti}
           ib2 == IF ahead = {} THEN Len(buf) - 1
                  ELSE CHOOSE j \in ahead : \A k \in ahead : j <= k
           imu == DeBiased(ImuAt(buf, ib2), bias)
           prev == ImuAt(st, i - 1)
           curr == [ImuAt(st, i) EXCEPT !.time = prev.time + dt,
                                        !.pos = ImuAt(st, 0).pos,
                                        !.rot = prev.rot + imu.gyr * dt]
       IN PredictLoopCatchUp([st EXCEPT ![i + 1] = curr], i + 1, ib2, t0, dt,
                             Append(used, ib2))

\* the loop of ImuTrajectory::Predict from cell i on; st holds the states
\* written so far and used the buffer index of each cell done; the result is
\* [states, ibuf, used]
RECURSIVE PredictLoop(_, _, _, _, _, _)
PredictLoop(st, i, ibuf, t0, dt, used) ==
  IF i >= Len(st) THEN [states |-> st, ibuf |-> ibuf, used |-> used]
  ELSE LET ti == t0 + dt * i
           ib1 == IF ImuAt(buf, ibuf).time < ti THEN ibuf + 1 ELSE ibuf
           ib2 == IF ib1 >= Len(buf) THEN Len(buf) - 1 ELSE ib1
           imu == DeBiased(ImuAt(buf, ib2), bias)
           prev == ImuAt(st, i - 1)
           curr == [ImuAt(st, i) EXCEPT !.time = prev.time + dt,
                                        !.pos = ImuAt(st, 0).pos,
                                        !.rot = prev.rot + imu.gyr * dt]
       IN PredictLoop([st EXCEPT ![i + 1] = curr], i + 1, ib2, t0, dt, Append(used, ib2))

\* ImuTrajectory::Predict(t0, dt)
Predict(t0, dt) ==
  \E ibuf0 \in {FindNextImu(buf, t0)} :
    IF ibuf0 < 0
    THEN /\ call' = [op |-> "Predict", t0 |-> t0, dt |-> dt,
                     status |-> "abort", val |-> 0]
         /\ UNCHANGED <<nodevars, timervars, interpvars, parvars, gridvars, imuvars, cmatches, ptraj, preint, steps, resid, jac, trajvars>>
    ELSE \E res \in {PredictLoop([states EXCEPT ![1].time = t0], 1, ibuf0, t0, dt, <<>>)} :
           /\ states' = res.states
           /\ call' = [op |-> "Predict", t0 |-> t0, dt |-> dt,
                       status |-> "ok", val |-> res.ibuf - ibuf0 + 1]
           /\ pidx' = res.used
           /\ UNCHANGED <<nodevars, timervars, interpvars, parvars, gridvars, buf, bias, cmatches, ptraj, preint, steps, resid, jac,
                          error, T_imu_lidar, g_pano, nupd>>

\* ------------------------------------------------------------------
\* double arithmetic on velocities: integers plus +-infinity and NaN (IEEE
\* 754: x/0 is +-infinity, 0/0 and inf - inf are NaN, NaN propagates).  The
\* inputs are chosen so that every finite quotient is exact.
FInf == 1000000
FNaN == 2000000
FIsInf(a) == a = FInf \/ a = -FInf
FNeg(a) == IF a = FNaN THEN FNaN ELSE -a
FAdd(a, b) ==
  IF a = FNaN \/ b = FNaN THEN FNaN
  ELSE IF FIsInf(a) THEN (IF b = -a THEN FNaN ELSE a)
  ELSE IF FIsInf(b) THEN b
  ELSE a + b
FDiv(a, b) ==
  IF a = FNaN THEN FNaN
  ELSE IF b = 0 THEN (IF a = 0 THEN FNaN ELSE IF a > 0 THEN FInf ELSE -FInf)
  ELSE IF FIsInf(a) THEN (IF b > 0 THEN a ELSE -a)
  ELSE IF a >= 0 THEN a \div b ELSE -((-a) \div b)

\* vectors <<x, y>>; a rotation is a number of quarter turns about the axis
VAdd(u, v) == <<FAdd(u[1], v[1]), FAdd(u[2], v[2])>>
VSub(u, v) == <<FAdd(u[1], FNeg(v[1])), FAdd(u[2], FNeg(v[2]))>>
VDiv(u, d) == <<FDiv(u[1], d), FDiv(u[2], d)>>
VScale(k, u) == <<k * u[1], k * u[2]>>
RotVec(k, v) ==
  CASE k % 4 = 0 -> v
    [] k % 4 = 1 -> <<-v[2], v[1]>>
    [] k % 4 = 2 -> <<-v[1], -v[2]>>
    [] k % 4 = 3 -> <<v[2], -v[1]>>

\* ImuTrajectory::InitExtrinsic(T_i_l)
InitExtrinsic(T_i_l) ==
  LET T_l_i == [rot |-> -T_i_l.rot, pos |-> RotVec(-T_i_l.rot, VScale(-1, T_i_l.pos))] IN
  /\ T_imu_lidar' = T_i_l
  /\ states' = [i \in 1 .. Len(states) |->
                  [states[i] EXCEPT !.rot = T_l_i.rot, !.pos = T_l_i.pos]]
  /\ call' = [op |-> "InitExtrinsic", t0 |-> 0, dt |-> 0, status |-> "ok", val |-> 0]
  /\ UNCHANGED <<nodevars, timervars, interpvars, parvars, gridvars, buf, bias, cmatches, ptraj, preint, steps, resid, jac,
                 error, g_pano, pidx, nupd>>

\* Trajectory::duration()
Duration == states[Len(states)].time - states[1].time

\* ------------------------------------------------------------------
\* ImuPreintegration (imu.cpp).  p is [n, duration, gamma, steps, ok]: the
\* members n, duration and gamma, the Integrate calls made so far, and
\* whether every CHECK passed so far.
PreintReset == [n |-> 0, duration |-> 0, gamma |-> 0]

\* ImuPreintegration::Integrate(dt, imu, noise)
Integrate(p, dt, imu) ==
  LET logged == Append(p.steps, [dt |-> dt, time |-> imu.time]) IN
  IF ~(dt > 0)
  THEN [p EXCEPT !.steps = logged, !.ok = FALSE]
  ELSE [p EXCEPT !.gamma = @ + imu.gyr * dt,
                 !.duration = @ + dt,
                 !.n = @ + 1,
                 !.steps = logged]

\* a Compute loop that goes on while the next sample is not later than t1
RECURSIVE ComputeLoopInclusive(_, _, _, _)
ComputeLoopInclusive(p, t, ibuf, t1) ==
  LET imu == DeBiased(ImuAt(buf, ibuf), bias)
      p1 == Integrate(p, imu.time - t, imu)
  IN IF ~p1.ok THEN [p |-> p1, ibuf |-> ibuf]
     ELSE IF ibuf + 1 = Len(buf) THEN [p |-> p1, ibuf |-> ibuf]
     ELSE IF ImuAt(buf, ibuf + 1).time > t1 THEN [p |-> p1, ibuf |-> ibuf]
     ELSE ComputeLoopInclusive(p1, imu.time, ibuf + 1, t1)

\* the while (true) loop of Compute; the result is [p, ibuf]
RECURSIVE ComputeLoop(_, _, _, _)
ComputeLoop(p, t, ibuf, t1) ==
  LET imu == DeBiased(ImuAt(buf, ibuf), bias)
      p1 == Integrate(p, imu.time - t, imu)
  IN IF ~p1.ok THEN [p |-> p1, ibuf |-> ibuf]
     ELSE IF ibuf + 1 = Len(buf) THEN [p |-> p1, ibuf |-> ibuf]
     ELSE IF ImuAt(buf, ibuf + 1).time >= t1 THEN [p |-> p1, ibuf |-> ibuf]
     ELSE ComputeLoop(p1, imu.time, ibuf + 1, t1)

\* ImuPreintegration::Compute on a freshly reset preintegration
Compute(t0, t1) ==
  LET p0 == [n |-> 0, duration |-> 0, gamma |-> 0, steps |-> <<>>, ok |-> TRUE]
      ibuf0 == FindNextImu(buf, t0)
  IN IF ~(t0 < t1) THEN [p0 EXCEPT !.ok = FALSE]
     ELSE IF ~(0 <= ibuf0) THEN [p0 EXCEPT !.ok = FALSE]
     ELSE LET lp == ComputeLoop(p0, t0, ibuf0, t1) IN
          IF ~lp.p.ok THEN lp.p
          ELSE LET imu == DeBiased(ImuAt(buf, lp.ibuf), bias)
               IN Integrate(lp.p, t1 - imu.time, imu)

\* ------------------------------------------------------------------
\* GicpCost (cost.cpp)
NumResiduals == Len(cmatches) * kResidualDim + (IF ptraj THEN 6 ELSE 0)

\* GicpCost::UpdateMatches(grid): the good cells in row-major order
RECURSIVE Collect(_)
Collect(i) ==
  IF i >= total THEN <<>>
  ELSE (IF Ok(matches[i]) THEN <<i>> ELSE <<>>) \o Collect(i + 1)

\* an UpdateMatches without matches.clear()
UpdateMatchesNoClear ==
  /\ cmatches' = cmatches \o Collect(0)
  /\ call' = [op |-> "UpdateMatches", t0 |-> 0, dt |-> 0,
              status |-> "ok", val |-> Len(cmatches')]
  /\ UNCHANGED <<nodevars, timervars, interpvars, parvars, gridvars, imuvars, ptraj, preint, steps, resid, jac, trajvars>>

UpdateMatches ==
  /\ cmatches' = Collect(0)
  /\ call' = [op |-> "UpdateMatches", t0 |-> 0, dt |-> 0,
              status |-> "ok", val |-> Len(cmatches')]
  /\ UNCHANGED <<nodevars, timervars, interpvars, parvars, gridvars, imuvars, ptraj, preint, steps, resid, jac, trajvars>>

\* GicpCost::UpdatePreint(traj, imuq)
UpdatePreint ==
  \E p \in {Compute(states[1].time, states[Len(states)].time)} :
    /\ ptraj' = TRUE
    /\ preint' = [n |-> p.n, duration |-> p.duration, gamma |-> p.gamma]
    /\ steps' = p.steps
    /\ call' = [op |-> "UpdatePreint", t0 |-> states[1].time, dt |-> 0,
                status |-> IF p.ok THEN "ok" ELSE "abort", val |-> p.n]
    /\ UNCHANGED <<nodevars, timervars, interpvars, parvars, gridvars, imuvars, cmatches, resid, jac, trajvars>>

\* GicpRigidCost::operator()(x, r, J): the residual entries and the 3x3
\* Jacobian blocks (first row, parameter block) it writes
MatchResiduals == 0 .. Len(cmatches) * kResidualDim - 1
MatchBlocks(J) ==
  IF J THEN {<<kResidualDim * i, b>> : i \in 0 .. Len(cmatches) - 1, b \in {"kR0", "kP0"}}
       ELSE {}
Offset == Len(cmatches) * kResidualDim
RigidCost(J) ==
  /\ IF ~ptraj
     THEN /\ resid' = MatchResiduals
          /\ jac' = MatchBlocks(J)
     ELSE /\ resid' = MatchResiduals \cup (Offset .. Offset + 5)
          /\ jac' = MatchBlocks(J) \cup
                    (IF J THEN {<<Offset + 3, "kR0">>, <<Offset + 3, "kP0">>} ELSE {})
  /\ call' = [op |-> "operator()", t0 |-> 0, dt |-> 0,
              status |-> "ok", val |-> NumResiduals]
  /\ UNCHANGED <<nodevars, timervars, interpvars, parvars, gridvars, imuvars, cmatches, ptraj, preint, steps, trajvars>>

\* ------------------------------------------------------------------
\* operator() of both cost variants step by step: the blocks of
\* tbb::parallel_for split and run in any order, then the inertial block
CostGsizes == {0, 1}
PanoCells == 0 .. 3
Variants == {"rigid", "linear"}
Caller == <<-1, -1>>

\* the matcher (not in these sources): every good cell of S gets its pano
\* statistics, a good cell outside S is reset or left without them
MatchPano(S, keep) ==
  /\ opc.phase = "idle"
  /\ matches' = [i \in DOMAIN matches |->
                   IF ~matches[i].mc_g_ok THEN matches[i]
                   ELSE IF i \in S THEN [matches[i] EXCEPT !.mc_p_ok = TRUE]
                   ELSE IF keep THEN [matches[i] EXCEPT !.mc_p_ok = FALSE]
                   ELSE ResetMatch]
  /\ call' = [op |-> "MatchPano", t0 |-> 0, dt |-> 0, status |-> "ok", val |-> 0]
  /\ UNCHANGED <<nodevars, timervars, interpvars, cell_size, max_score, nms, score, col_rg, add_ret, last_scan, ncalls,
                 imuvars, cmatches, ptraj, preint, steps, resid, jac, trajvars, parvars>>

\* rows packed two apart, so that neighbouring stripes overlap
RiPacked(i) == 2 * i
\* const int ri = kResidualDim * i
Ri(i) == kResidualDim * i
\* the three residual entries from row on, and the two 3x3 blocks at row
RLocs(row) == {<<"r", row + k, "-">> : k \in 0 .. 2}
JLocs(row) == {<<"J", row, b>> : b \in {"kR0", "kP0"}}
\* writer w stores v at the locations locs of the output buffers o
Write(o, locs, v, w) ==
  [l \in (DOMAIN o) \cup locs |->
     IF l \in locs
     THEN [val |-> v, by |-> (IF l \in DOMAIN o THEN o[l].by ELSE {}) \cup {w}]
     ELSE o[l]]

\* operator() up to tbb::blocked_range<int>(0, matches.size(), gsize_), whose
\* grain size must be positive: with gsize_ <= 0 a checked build stops here
OperatorBegin(variant, J) ==
  /\ opc.phase # "loop"
  /\ out' = <<>>
  /\ \/ /\ gsize_ <= 0
        /\ opc' = [variant |-> variant, J |-> J, phase |-> "abort"]
        /\ tasks' = {}
     \/ /\ opc' = [variant |-> variant, J |-> J, phase |-> "loop"]
        /\ tasks' = IF Len(cmatches) = 0 THEN {}
                    ELSE {[blk |-> <<0, Len(cmatches)>>, i |-> 0]}
  /\ call' = [op |-> "operator() begin", t0 |-> 0, dt |-> 0,
              status |-> opc'.phase, val |-> gsize_]
  /\ UNCHANGED <<nodevars, timervars, interpvars, gridvars, imuvars, cmatches, ptraj, preint, steps, resid, jac, trajvars, user_gsize, gsize_>>

\* blocked_range splitting: a block not started is divisible while it is larger
\* than the grain, and is halved at its middle
Split(t) ==
  /\ opc.phase = "loop"
  /\ t \in tasks
  /\ t.i = t.blk[1]
  /\ t.blk[2] - t.blk[1] > gsize_
  /\ LET lo == t.blk[1]
         hi == t.blk[2]
         mid == lo + (hi - lo) \div 2
     IN tasks' = (tasks \ {t}) \cup
                 {b \in {[blk |-> <<lo, mid>>, i |-> lo], [blk |-> <<mid, hi>>, i |-> mid]} :
                    b.blk[1] < b.blk[2]}
  /\ call' = [op |-> "split", t0 |-> 0, dt |-> 0, status |-> "ok", val |-> 0]
  /\ UNCHANGED <<nodevars, timervars, interpvars, gridvars, imuvars, cmatches, ptraj, preint, steps, resid, jac, trajvars, user_gsize, gsize_, opc, out>>

\* one iteration of the loop body of block t: residual r and, with a Jacobian
\* asked for, the blocks kR0 and kP0 at row ri
RunMatch(t) ==
  /\ opc.phase = "loop"
  /\ t \in tasks
  /\ t.i < t.blk[2]
  /\ LET ri == Ri(t.i)
         o1 == Write(out, RLocs(ri), <<"gicp", t.i>>, t.blk)
     IN out' = IF opc.J THEN Write(o1, JLocs(ri), <<"gicp", t.i>>, t.blk) ELSE o1
  /\ tasks' = (tasks \ {t}) \cup
              (IF t.i + 1 < t.blk[2] THEN {[t EXCEPT !.i = t.i + 1]} ELSE {})
  /\ call' = [op |-> "match", t0 |-> 0, dt |-> 0, status |-> "ok", val |-> 0]
  /\ UNCHANGED <<nodevars, timervars, interpvars, gridvars, imuvars, cmatches, ptraj, preint, steps, resid, jac, trajvars, user_gsize, gsize_, opc>>

\* operator() after the parallel loop: return if no trajectory is attached,
\* else the inertial residuals and Jacobian blocks
Inertial ==
  /\ opc.phase = "loop"
  /\ tasks = {}
  /\ opc' = [opc EXCEPT !.phase = "done"]
  /\ LET offset == Len(cmatches) * kResidualDim IN
     out' = IF ~ptraj THEN out
            ELSE IF opc.variant = "rigid"
            THEN LET o1 == Write(out, RLocs(offset), <<"gamma", 0>>, Caller)
                     o2 == Write(o1, RLocs(offset + 3), <<"alpha", 0>>, Caller)
                     o3 == Write(o2, JLocs(offset + 3), <<"gamma", 0>>, Caller)
                 IN IF opc.J THEN Write(o3, JLocs(offset + 3), <<"alpha", 0>>, Caller)
                    ELSE o2
            ELSE LET o1 == Write(out, RLocs(offset), <<"alpha", 0>>, Caller)
                 IN IF opc.J THEN Write(o1, JLocs(offset), <<"alpha", 0>>, Caller)
                    ELSE o1
  /\ call' = [op |-> "operator() end", t0 |-> 0, dt |-> 0, status |-> "ok", val |-> 0]
  /\ UNCHANGED <<nodevars, timervars, interpvars, gridvars, imuvars, cmatches, ptraj, preint, steps, resid, jac, trajvars, user_gsize, gsize_, tasks>>

\* ------------------------------------------------------------------
\* SweepGrid::InterpSweep / InterpPosesImpl (grid.cpp), one step per block
\* split and per grid cell
InterpGsizes == {0, 1, 2}
SweepSizes == {3, 6}
TfSteps == {<<2, 0>>, <<0, 4>>, <<2, 4>>}

\* a pose interpolated at fraction j / cell_width between T0 and T1 one column early
InterpPoseNext(T0, T1, j, w) ==
  <<T0[1] + ((j + 1) * (T1[1] - T0[1])) \div w, T0[2] + ((j + 1) * (T1[2] - T0[2])) \div w>>
\* R0 * exp(s * dR) and t0 + s * dt with s = j / cell_width
InterpPose(T0, T1, j, w) ==
  <<T0[1] + (j * (T1[1] - T0[1])) \div w, T0[2] + (j * (T1[2] - T0[2])) \div w>>

\* InterpPosesImpl up to the parallel_for
InterpBegin(gs) ==
  /\ interp.status # "loop"
  /\ LET ncells == Len(tfs) - 1 IN
     IF ncells * cell_size.width # Len(sweep_tfs)
     THEN /\ interp' = [gsize |-> gs, status |-> "abort"]
          /\ UNCHANGED <<nodevars, timervars, sweep_tfs, iblks>>
     ELSE /\ interp' = [gsize |-> (IF gs <= 0 THEN ncells ELSE gs), status |-> "loop"]
          /\ iblks' = {[blk |-> <<0, ncells>>, i |-> 0]}
          /\ sweep_tfs' = [c \in DOMAIN sweep_tfs |-> [sweep_tfs[c] EXCEPT !.n = 0]]
  /\ UNCHANGED <<nodevars, timervars, gridvars, imuvars, costvars, trajvars, parvars, tfs>>

\* blocked_range splitting of a block not started and larger than the grain
InterpSplit(t) ==
  /\ interp.status = "loop"
  /\ t \in iblks
  /\ t.i = t.blk[1]
  /\ t.blk[2] - t.blk[1] > interp.gsize
  /\ LET lo == t.blk[1]
         hi == t.blk[2]
         mid == lo + (hi - lo) \div 2
     IN iblks' = (iblks \ {t}) \cup
                 {[blk |-> <<lo, mid>>, i |-> lo], [blk |-> <<mid, hi>>, i |-> mid]}
  /\ UNCHANGED <<nodevars, timervars, gridvars, imuvars, costvars, trajvars, parvars, tfs, sweep_tfs, interp>>

\* the loop body for grid cell t.i: its cell_width columns
InterpCell(t) ==
  /\ interp.status = "loop"
  /\ t \in iblks
  /\ t.i < t.blk[2]
  /\ LET w == cell_size.width
         T0 == tfs[t.i + 1]
         T1 == tfs[t.i + 2]
     IN sweep_tfs' = [c \in DOMAIN sweep_tfs |->
                        LET col == c - 1 IN
                        IF t.i * w <= col /\ col < t.i * w + w
                        THEN [tf |-> InterpPose(T0, T1, col - t.i * w, w),
                              n |-> sweep_tfs[c].n + 1,
                              by |-> t.blk]
                        ELSE sweep_tfs[c]]
  /\ iblks' = (iblks \ {t}) \cup
              (IF t.i + 1 < t.blk[2] THEN {[t EXCEPT !.i = t.i + 1]} ELSE {})
  /\ interp' = [interp EXCEPT !.status = IF iblks' = {} THEN "done" ELSE "loop"]
  /\ UNCHANGED <<nodevars, timervars, gridvars, imuvars, costvars, trajvars, parvars, tfs>>

\* the grid poses set before interpolation (by the trajectory; not in grid.cpp):
\* pose i is i steps of d from the first
SetTfs(d) ==
  /\ interp.status \in {"idle", "abort"}
  /\ tfs' = [i \in DOMAIN tfs |-> <<(i - 1) * d[1], (i - 1) * (i - 1) * d[2]>>]
  /\ UNCHANGED <<nodevars, timervars, gridvars, imuvars, costvars, trajvars, parvars, sweep_tfs, interp, iblks>>

\* ------------------------------------------------------------------
\* Timer (timer.h) under a clock that never runs backwards
MaxClock == 6
ClockStarts == {0, 3}
ClockSteps == {1, 2}
TimerCall(name) == [op |-> name, t0 |-> 0, dt |-> 0, status |-> "ok", val |-> 0]

\* the clock advances by d
Tick(d) ==
  /\ now + d <= MaxClock
  /\ now' = now + d
  /\ ran' = IF running_ THEN ran + d ELSE ran
  /\ call' = TimerCall("Tick")
  /\ UNCHANGED <<nodevars, gridvars, imuvars, cmatches, ptraj, preint, steps, resid, jac, trajvars, parvars, interpvars, running_, time_ns_, elapsed>>

\* Timer::Start
Start ==
  /\ running_' = TRUE
  /\ time_ns_' = now
  /\ ran' = 0
  /\ call' = TimerCall("Start")
  /\ UNCHANGED <<nodevars, gridvars, imuvars, cmatches, ptraj, preint, steps, resid, jac, trajvars, parvars, interpvars, now, elapsed>>

\* Timer::Stop
Stop ==
  /\ IF ~running_ THEN UNCHANGED <<nodevars, running_, time_ns_>>
     ELSE /\ running_' = FALSE
          /\ time_ns_' = now - time_ns_
  /\ call' = TimerCall("Stop")
  /\ UNCHANGED <<nodevars, gridvars, imuvars, cmatches, ptraj, preint, steps, resid, jac, trajvars, parvars, interpvars, now, ran, elapsed>>

\* a Resume that restarts from the clock and forgets the time already elapsed
ResumeFresh ==
  /\ IF running_ THEN UNCHANGED <<nodevars, running_, time_ns_>>
     ELSE /\ running_' = TRUE
          /\ time_ns_' = now
  /\ call' = TimerCall("Resume")
  /\ UNCHANGED <<nodevars, gridvars, imuvars, cmatches, ptraj, preint, steps, resid, jac, trajvars, parvars, interpvars, now, ran, elapsed>>

\* Timer::Resume
Resume ==
  /\ IF running_ THEN UNCHANGED <<nodevars, running_, time_ns_>>
     ELSE LET prev_elapsed == time_ns_ IN
          /\ running_' = TRUE
          /\ time_ns_' = now - prev_elapsed
  /\ call' = TimerCall("Resume")
  /\ UNCHANGED <<nodevars, gridvars, imuvars, cmatches, ptraj, preint, steps, resid, jac, trajvars, parvars, interpvars, now, ran, elapsed>>

\* Timer::Elapsed
Elapsed ==
  /\ elapsed' = IF ~running_ THEN time_ns_ ELSE now - time_ns_
  /\ call' = TimerCall("Elapsed")
  /\ UNCHANGED <<nodevars, gridvars, imuvars, cmatches, ptraj, preint, steps, resid, jac, trajvars, parvars, interpvars, now, running_, time_ns_, ran>>

\* ------------------------------------------------------------------
\* OdomNode::CameraCb (llol_node.cpp): one callback per scan slice
MaxSweeps == 3
Binning == 3
Poses == {0, 1, 2, 3}
OdomToPano == [frame |-> "odom", child |-> "pano", tf |-> 0]
\* what Init(cinfo_msg) broadcasts on the first callback
InitSent == IF init_ THEN <<>> ELSE <<OdomToPano>>

\* a callback that keeps the solver's pose whether usable or not
CameraCbNoRevert(binning_x, binning_y, sol, usable) ==
  /\ num_sweeps < MaxSweeps
  /\ init_' = TRUE
  /\ call' = [op |-> "CameraCb", t0 |-> binning_x, dt |-> binning_y,
              status |-> "ok", val |-> 0]
  /\ IF wait_for_scan0 /\ binning_x # 0
     THEN /\ sent' = InitSent
          /\ reg' = [ran |-> FALSE, good |-> FALSE, sol |-> 0]
          /\ UNCHANGED <<T_p_s_, wait_for_scan0, num_sweeps>>
     ELSE /\ wait_for_scan0' = FALSE
          /\ IF num_sweeps > 0
             THEN /\ reg' = [ran |-> TRUE, good |-> usable, sol |-> sol]
                  /\ T_p_s_' = sol
                  /\ sent' = InitSent \o
                             (IF usable THEN <<[frame |-> "pano", child |-> "sweep", tf |-> sol]>>
                              ELSE <<>>) \o
                             <<OdomToPano>>
             ELSE /\ reg' = [ran |-> FALSE, good |-> FALSE, sol |-> 0]
                  /\ sent' = InitSent
                  /\ UNCHANGED T_p_s_
          /\ num_sweeps' = IF binning_x + 1 = binning_y THEN num_sweeps + 1 ELSE num_sweeps
  /\ UNCHANGED <<gridvars, imuvars, cmatches, ptraj, preint, steps, resid, jac, trajvars, parvars, interpvars, timervars>>

\* OdomNode::CameraCb for slice binning_x of binning_y, the solver of Register
\* leaving the pose sol in T_p_s_ and reporting IsSolutionUsable() = usable
CameraCb(binning_x, binning_y, sol, usable) ==
  /\ num_sweeps < MaxSweeps
  /\ init_' = TRUE
  /\ call' = [op |-> "CameraCb", t0 |-> binning_x, dt |-> binning_y,
              status |-> "ok", val |-> 0]
  /\ IF wait_for_scan0 /\ binning_x # 0
     THEN /\ sent' = InitSent
          /\ reg' = [ran |-> FALSE, good |-> FALSE, sol |-> 0]
          /\ UNCHANGED <<T_p_s_, wait_for_scan0, num_sweeps>>
     ELSE /\ wait_for_scan0' = FALSE
          /\ IF num_sweeps > 0
             THEN LET T_p_s == T_p_s_ IN
                  /\ reg' = [ran |-> TRUE, good |-> usable, sol |-> sol]
                  /\ T_p_s_' = IF usable THEN sol ELSE T_p_s
                  /\ sent' = InitSent \o
                             (IF usable THEN <<[frame |-> "pano", child |-> "sweep", tf |-> sol]>>
                              ELSE <<>>) \o
                             <<OdomToPano>>
             ELSE /\ reg' = [ran |-> FALSE, good |-> FALSE, sol |-> 0]
                  /\ sent' = InitSent
                  /\ UNCHANGED T_p_s_
          /\ num_sweeps' = IF binning_x + 1 = binning_y THEN num_sweeps + 1 ELSE num_sweeps
  /\ UNCHANGED <<gridvars, imuvars, cmatches, ptraj, preint, steps, resid, jac, trajvars, parvars, interpvars, timervars>>

\* GicpCost::ResetError, and the solver storing its correction in error
ZeroError == [r0 |-> 0, p0 |-> Zero2]
ResetError ==
  /\ error' = ZeroError
  /\ call' = [op |-> "ResetError", t0 |-> 0, dt |-> 0, status |-> "ok", val |-> 0]
  /\ UNCHANGED <<nodevars, timervars, interpvars, parvars, gridvars, imuvars, cmatches, ptraj, preint, steps, resid, jac,
                 T_imu_lidar, g_pano, pidx, nupd>>
SetError(es) ==
  /\ error' = es
  /\ call' = [op |-> "SetError", t0 |-> 0, dt |-> 0, status |-> "ok", val |-> 0]
  /\ UNCHANGED <<nodevars, timervars, interpvars, parvars, gridvars, imuvars, cmatches, ptraj, preint, steps, resid, jac,
                 T_imu_lidar, g_pano, pidx, nupd>>

\* an UpdateTraj that corrects every state (the loop the code has commented out)
RigidUpdateTrajAll ==
  /\ nupd < MaxUpdates
  /\ nupd' = nupd + 1
  /\ LET dt == Duration
         eR == error.r0
     IN states' = [i \in 1 .. Len(states) |->
                     [states[i] EXCEPT !.rot = eR + states[i].rot,
                                       !.pos = VAdd(RotVec(eR, states[i].pos), error.p0),
                                       !.vel = VAdd(states[i].vel, VDiv(error.p0, dt))]]
  /\ call' = [op |-> "RigidUpdateTraj", t0 |-> 0, dt |-> 0, status |-> "ok", val |-> 0]
  /\ UNCHANGED <<nodevars, timervars, interpvars, parvars, gridvars, buf, bias, cmatches, ptraj, preint, steps, resid, jac,
                 error, T_imu_lidar, g_pano, pidx>>

\* GicpRigidCost::UpdateTraj(traj)
RigidUpdateTraj ==
  /\ nupd < MaxUpdates
  /\ nupd' = nupd + 1
  /\ LET dt == Duration
         eR == error.r0
         st == states[1]
     IN states' = [states EXCEPT ![1] =
                     [st EXCEPT !.rot = eR + st.rot,
                                !.pos = VAdd(RotVec(eR, st.pos), error.p0),
                                !.vel = VAdd(st.vel, VDiv(error.p0, dt))]]
  /\ call' = [op |-> "RigidUpdateTraj", t0 |-> 0, dt |-> 0, status |-> "ok", val |-> 0]
  /\ UNCHANGED <<nodevars, timervars, interpvars, parvars, gridvars, buf, bias, cmatches, ptraj, preint, steps, resid, jac,
                 error, T_imu_lidar, g_pano, pidx>>

\* MeanVar3d: the mean of the values added so far (zero before the first)
MeanVarAdd(acc, v) == [n |-> acc.n + 1, sum |-> VAdd(acc.sum, v)]
MeanVarMean(acc) == IF acc.n = 0 THEN Zero2 ELSE VDiv(acc.sum, acc.n)

\* a loop that differences velocities from state 1 on (i > 0 for i > 1)
RECURSIVE LinearLoopFromFirst(_, _, _)
LinearLoopFromFirst(st, i, acc) ==
  IF i >= Len(st) THEN [states |-> st, vel |-> acc]
  ELSE LET st_i == ImuAt(st, i)
           new_i == [st_i EXCEPT
                       !.rot = error.r0 + st_i.rot,
                       !.pos = VAdd(RotVec(error.r0, st_i.pos),
                                    VDiv(VScale(i, error.p0), Len(st) - 1))]
           st1 == [st EXCEPT ![i + 1] = new_i]
       IN IF i > 0
          THEN LET st_im1 == ImuAt(st1, i - 1)
                   v == VDiv(VSub(new_i.pos, st_im1.pos), new_i.time - st_im1.time)
               IN LinearLoopFromFirst([st1 EXCEPT ![i].vel = v], i + 1, MeanVarAdd(acc, v))
          ELSE LinearLoopFromFirst(st1, i + 1, acc)

\* the for loop of GicpLinearCost::UpdateTraj from state i on
RECURSIVE LinearLoop(_, _, _)
LinearLoop(st, i, acc) ==
  IF i >= Len(st) THEN [states |-> st, vel |-> acc]
  ELSE LET st_i == ImuAt(st, i)
           new_i == [st_i EXCEPT
                       !.rot = error.r0 + st_i.rot,
                       !.pos = VAdd(RotVec(error.r0, st_i.pos),
                                    VDiv(VScale(i, error.p0), Len(st) - 1))]
           st1 == [st EXCEPT ![i + 1] = new_i]
       IN IF i > 1
          THEN LET st_im1 == ImuAt(st1, i - 1)
                   v == VDiv(VSub(new_i.pos, st_im1.pos), new_i.time - st_im1.time)
               IN LinearLoop([st1 EXCEPT ![i].vel = v], i + 1, MeanVarAdd(acc, v))
          ELSE LinearLoop(st1, i + 1, acc)

\* GicpLinearCost::UpdateTraj(traj)
LinearUpdateTraj ==
  /\ nupd < MaxUpdates
  /\ nupd' = nupd + 1
  /\ \E res \in {LinearLoop(states, 0, [n |-> 0, sum |-> Zero2])} :
       states' = [res.states EXCEPT ![Len(states)].vel = MeanVarMean(res.vel)]
  /\ call' = [op |-> "LinearUpdateTraj", t0 |-> 0, dt |-> 0, status |-> "ok", val |-> 0]
  /\ UNCHANGED <<nodevars, timervars, interpvars, parvars, gridvars, buf, bias, cmatches, ptraj, preint, steps, resid, jac,
                 error, T_imu_lidar, g_pano, pidx>>

\* ------------------------------------------------------------------
\* Specifications
NoCall == [op |-> "none", t0 |-> 0, dt |-> 0, status |-> "none", val |-> 0]

\* a default-constructed trajectory of n states and a default-constructed cost
TrajInit(n) ==
  /\ states = [i \in 1 .. n |-> NavState0]
  /\ cmatches = <<>>
  /\ ptraj = FALSE
  /\ preint = PreintReset
  /\ steps = <<>>
  /\ resid = {}
  /\ jac = {}
  /\ call = NoCall
  /\ error = ZeroError
  /\ T_imu_lidar = [rot |-> 0, pos |-> Zero2]
  /\ g_pano = <<0, 10>>
  /\ pidx = <<>>
  /\ nupd = 0

\* GicpCost::GicpCost(gsize), no operator() call made yet
GicpCost(g) ==
  /\ user_gsize = g
  /\ gsize_ = (IF g <= 0 THEN Len(cmatches) ELSE g + 2)
  /\ opc = [variant |-> "none", J |-> FALSE, phase |-> "idle"]
  /\ tasks = {}
  /\ out = <<>>

\* OdomNode::OdomNode: identity pose, nothing received yet
OdomNode ==
  /\ T_p_s_ = 0
  /\ init_ = FALSE
  /\ wait_for_scan0 = TRUE
  /\ num_sweeps = 0
  /\ sent = <<>>
  /\ reg = [ran |-> FALSE, good |-> FALSE, sol |-> 0]

\* Timer::Timer() at clock time t: Start()
Timer(t) ==
  /\ now = t
  /\ running_ = TRUE
  /\ time_ns_ = t
  /\ ran = 0
  /\ elapsed = 0

\* SweepGrid::tfs after construction (score.cols + 1 identity poses) and a
\* sweep of n columns, no InterpSweep call made yet
NoInterp(n) ==
  /\ tfs = [i \in 1 .. cols + 1 |-> <<0, 0>>]
  /\ sweep_tfs = [c \in 1 .. n |-> [tf |-> <<0, 0>>, n |-> 0, by |-> <<0, 0>>]]
  /\ interp = [gsize |-> 0, status |-> "idle"]
  /\ iblks = {}

\* the IMU buffers handed to the trajectory: strictly increasing times, the
\* gyro reading of a sample being its time
RECURSIVE SortedSamples(_)
SortedSamples(S) ==
  IF S = {} THEN <<>>
  ELSE LET m == CHOOSE x \in S : \A y \in S : x <= y
       IN <<[time |-> m, gyr |-> m]>> \o SortedSamples(S \ {m})
Buffers == {SortedSamples(S) : S \in {T \in SUBSET (1 .. MaxTime) : Cardinality(T) <= MaxBuf}}

\* the grid after one accepted slice over all columns that left the first k
\* cells good (NMS off, their scores below max_score), each matched in the pano
GridAfterAdd(k) ==
  /\ cell_size = [width |-> 1, height |-> 2]
  /\ max_score = 1
  /\ nms = FALSE
  /\ score = [r \in 0 .. rows - 1 |-> [c \in 0 .. 2 |-> IF r * 3 + c < k THEN 0 ELSE NaN]]
  /\ col_rg = Range(0, 3)
  /\ matches = [i \in 0 .. rows * 3 - 1 |->
                  IF i < k THEN [GoodMatch(<<i % 3, i \div 3>>) EXCEPT !.mc_p_ok = TRUE]
                  ELSE ResetMatch]
  /\ add_ret = [status |-> "ok", n1 |-> k, n2 |-> k]
  /\ last_scan = [rows |-> rows * 2, col_rg |-> Range(0, 3)]
  /\ ncalls = 1

\* SweepGrid alone
Init ==
  /\ GridInit
  /\ buf = <<>>
  /\ bias = 0
  /\ TrajInit(2)
  /\ GicpCost(0)
  /\ NoInterp(cols * cell_size.width)
  /\ Timer(0)
  /\ OdomNode
Next == AddAccepted \/ AddRejected
Spec == Init /\ [][Next]_vars

\* ImuTrajectory and GicpCost on a filtered grid
InitImu ==
  /\ \E k \in GoodCounts : GridAfterAdd(k)
  /\ buf \in Buffers
  /\ bias \in GyrBias
  /\ \E n \in NumStates : TrajInit(n)
  /\ GicpCost(0)
  /\ NoInterp(cols * cell_size.width)
  /\ Timer(0)
  /\ OdomNode
NextImu ==
  \/ \E t0 \in 0 .. MaxTime, dt \in Dts : Predict(t0, dt)
  \/ UpdateMatches
  \/ UpdatePreint
  \/ \E J \in BOOLEAN : RigidCost(J)
SpecImu == InitImu /\ [][NextImu]_vars

\* ImuTrajectory with the trajectory updates of both cost variants
TrajBuffers == {SortedSamples(1 .. n) : n \in 1 .. 2}
InitTraj ==
  /\ GridAfterAdd(0)
  /\ buf \in TrajBuffers
  /\ bias \in GyrBias
  /\ \E n \in TrajSizes : TrajInit(n)
  /\ GicpCost(0)
  /\ NoInterp(cols * cell_size.width)
  /\ Timer(0)
  /\ OdomNode
NextTraj ==
  \/ \E r \in ExtRots : InitExtrinsic([rot |-> r, pos |-> <<4 * r, 0>>])
  \/ \E dt \in Dts : Predict(0, dt)
  \/ ResetError
  \/ \E r \in ErrRots, p \in ErrPos : SetError([r0 |-> r, p0 |-> p])
  \/ RigidUpdateTraj
  \/ LinearUpdateTraj
SpecTraj == InitTraj /\ [][NextTraj]_vars

\* GicpCost on a matched grid: match collection and operator() evaluation
InitCost ==
  /\ GridAfterAdd(4)
  /\ buf = SortedSamples({1})
  /\ bias \in GyrBias
  /\ TrajInit(2)
  /\ \E g \in CostGsizes : GicpCost(g)
  /\ NoInterp(cols * cell_size.width)
  /\ Timer(0)
  /\ OdomNode
NextCost ==
  \/ \E S \in SUBSET PanoCells, keep \in BOOLEAN : MatchPano(S, keep)
  \/ opc.phase # "loop" /\ UpdateMatches
  \/ opc.phase # "loop" /\ UpdatePreint
  \/ \E v \in Variants, J \in BOOLEAN : OperatorBegin(v, J)
  \/ \E t \in tasks : Split(t)
  \/ \E t \in tasks : RunMatch(t)
  \/ Inertial
SpecCost == InitCost /\ [][NextCost]_vars

\* SweepGrid::InterpSweep on a constructed grid and a sweep
InitInterp ==
  /\ cell_size \in {[width |-> w, height |-> 2] : w \in CellCols}
  /\ max_score = 1
  /\ nms = FALSE
  /\ score = [r \in 0 .. rows - 1 |-> [c \in 0 .. 2 |-> NaN]]
  /\ col_rg = Range(0, 0)
  /\ matches = [i \in 0 .. rows * 3 - 1 |-> ResetMatch]
  /\ add_ret = [status |-> "none", n1 |-> 0, n2 |-> 0]
  /\ last_scan = [rows |-> 0, col_rg |-> Range(0, 0)]
  /\ ncalls = 0
  /\ buf = <<>>
  /\ bias = 0
  /\ TrajInit(2)
  /\ \E g \in {0} : GicpCost(g)
  /\ \E n \in SweepSizes : NoInterp(n)
  /\ Timer(0)
  /\ OdomNode
NextInterp ==
  \/ \E d \in TfSteps : SetTfs(d)
  \/ \E gs \in InterpGsizes : InterpBegin(gs)
  \/ \E t \in iblks : InterpSplit(t)
  \/ \E t \in iblks : InterpCell(t)
SpecInterp == InitInterp /\ [][NextInterp]_vars

\* a Timer and its clock
InitTimer ==
  /\ GridAfterAdd(0)
  /\ buf = <<>>
  /\ bias = 0
  /\ TrajInit(2)
  /\ GicpCost(0)
  /\ NoInterp(cols * cell_size.width)
  /\ \E t \in ClockStarts : Timer(t)
  /\ OdomNode
NextTimer ==
  \/ \E d \in ClockSteps : Tick(d)
  \/ Start
  \/ Stop
  \/ Resume
  \/ Elapsed
SpecTimer == InitTimer /\ [][NextTimer]_vars

\* the odometry node fed with scan slices
InitNode ==
  /\ GridAfterAdd(0)
  /\ buf = <<>>
  /\ bias = 0
  /\ TrajInit(2)
  /\ GicpCost(0)
  /\ NoInterp(cols * cell_size.width)
  /\ Timer(0)
  /\ OdomNode
NextNode ==
  \E bx \in 0 .. Binning - 1, sol \in Poses, usable \in BOOLEAN :
    CameraCb(bx, Binning, sol, usable)
SpecNode == InitNode /\ [][NextNode]_vars

\* Claims about SweepGrid (checked under Spec)
SweepWidth == cols * cell_size.width
LastEnd == last_scan.col_rg.end
InWindow(rg, c) == rg.start <= c /\ c < rg.end
WindowCells(rg) == {px \in (0 .. cols - 1) \X (0 .. rows - 1) : InWindow(rg, px[1])}
IsGood(px) == matches[Px2Ind(px)].mc_g_ok

\* C1 (as stated): after Add accepted a slice of whole cells ending at sweep
\* column e, every slice with the grid's row count that starts at
\* e mod (ncols*w_c) and ends inside the sweep passes Check, so in-order
\* tiling slices and the wrap-around slice are all accepted.
C1_AlignedSliceAccepted ==
  ( /\ add_ret.status = "ok"
    /\ RangeSize(col_rg) > 0
    /\ LastEnd = col_rg.end * cell_size.width ) =>
    \A scan \in Slices :
      ( /\ scan.rows = rows * cell_size.height
        /\ scan.col_rg.start = LastEnd % SweepWidth
        /\ scan.col_rg.end <= SweepWidth ) => Check(scan)

\* C2 (as stated): Add rejects every slice that violates (a) start =
\* previous slice's end modulo the sweep width, (b) row count = nrows*h_c, or
\* (c) column span a multiple of w_c; so a slice that Add accepts satisfies
\* all three.
C2_ViolatingSliceRejected ==
  [][ (ncalls' = ncalls + 1 /\ add_ret'.status = "ok") =>
        /\ last_scan'.col_rg.start = LastEnd % SweepWidth
        /\ last_scan'.rows = rows * cell_size.height
        /\ RangeSize(last_scan'.col_rg) % cell_size.width = 0 ]_vars

\* C3: a call of Add that rejects its slice leaves col_rg, the score image
\* and the cell array exactly as they were, and therefore every slice that
\* would have been accepted before the rejected call is accepted after it.
C3_RejectKeepsState ==
  [][ (ncalls' = ncalls + 1 /\ add_ret'.status = "rejected") =>
        /\ col_rg' = col_rg
        /\ score' = score
        /\ matches' = matches
        /\ \A scan \in Slices : Check(scan)' = Check(scan) ]_vars

\* a slice was rejected by a grid that holds scores and good cells of an
\* earlier accepted slice
C3_Witness ==
  /\ add_ret.status = "rejected"
  /\ RangeSize(col_rg) > 0
  /\ \E px \in WindowCells(col_rg) : IsGood(px)

\* C4: the good-cell rule, stated from the claim.  NaN neighbours count as
\* +infinity.
LeqOrNaN(m, x) == IsNaN(x) \/ m <= x
GoodRule(sc, ms, n, rg, c, r) ==
  /\ ~IsNaN(sc[r][c])
  /\ sc[r][c] < ms
  /\ n => /\ c # rg.start
          /\ c # rg.end - 1
          /\ LeqOrNaN(sc[r][c], sc[r][c - 1])
          /\ LeqOrNaN(sc[r][c], sc[r][c + 1])

\* one-row score images, for checking FilterRow on whole families of rows
RowImage(row) == [r \in {0} |-> row]
RowRange(row) == Range(0, Cardinality(DOMAIN row))
RowVals == {NaN, 0, 1, 2, 3}
TestRows == UNION {[0 .. k - 1 -> RowVals] : k \in 1 .. 5}
\* the row [NaN, 0.9, 0.2, 0.5, 0.1, 0.3, NaN], scores in tenths
NmsRow == [c \in 0 .. 6 |-> <<NaN, 9, 2, 5, 1, 3, NaN>>[c + 1]]

\* C4: after Filter, a cell of the active window is good iff GoodRule holds
\* for it, and every other cell of the window is reset; FilterRow follows
\* the same rule on every row of up to five cells; and on the row
\* [NaN, 0.9, 0.2, 0.5, 0.1, 0.3, NaN] with max_score 0.8 and NMS on exactly
\* columns 2 and 4 are good.
C4_GoodCellRule ==
  /\ \A px \in WindowCells(col_rg) :
       /\ IsGood(px) <=> GoodRule(score, max_score, nms, col_rg, px[1], px[2])
       /\ IsGood(px) => matches[Px2Ind(px)] = GoodMatch(px)
       /\ ~IsGood(px) => matches[Px2Ind(px)] = ResetMatch
  /\ ncalls = 0 =>
       /\ \A row \in TestRows :
            FilterRow(RowImage(row), max_score, nms, RowRange(row), 0)
              = {c \in DOMAIN row :
                   GoodRule(RowImage(row), max_score, nms, RowRange(row), c, 0)}
       /\ FilterRow(RowImage(NmsRow), 8, TRUE, RowRange(NmsRow), 0) = {2, 4}

\* with NMS on, one row of the active window holds a good cell next to a NaN
\* score, and the last column of the range a cell below max_score that is
\* not good
C4_Witness ==
  /\ nms
  /\ add_ret.status = "ok"
  /\ \E px \in WindowCells(col_rg) :
       /\ IsGood(px)
       /\ IsNaN(score[px[2]][px[1] - 1]) \/ IsNaN(score[px[2]][px[1] + 1])
  /\ \E px \in WindowCells(col_rg) :
       /\ ~IsGood(px)
       /\ Lt(score[px[2]][px[1]], max_score)
       /\ px[1] = col_rg.end - 1

\* C5: a row (window rg of row r of image sc) is strictly convex with a
\* unique minimum
NoNaN(sc, rg, r) == \A c \in rg.start .. rg.end - 1 : ~IsNaN(sc[r][c])
StrictlyConvex(sc, rg, r) ==
  /\ RangeSize(rg) >= 1
  /\ NoNaN(sc, rg, r)
  /\ \A c \in rg.start + 1 .. rg.end - 2 : sc[r][c - 1] + sc[r][c + 1] > 2 * sc[r][c]
  /\ \E k \in rg.start .. rg.end - 1 :
       \A c \in rg.start .. rg.end - 1 : c # k => sc[r][k] < sc[r][c]
ArgMin(sc, rg, r) ==
  CHOOSE k \in rg.start .. rg.end - 1 :
    \A c \in rg.start .. rg.end - 1 : sc[r][k] <= sc[r][c]
GoodInRow(rg, r) == {c \in rg.start .. rg.end - 1 : IsGood(<<c, r>>)}

\* C5 (as stated): with NMS on, every strictly convex row of the active
\* window has exactly one good cell after Filter.
C5_ExactlyOneSurvivor ==
  nms => \A r \in 0 .. rows - 1 :
           StrictlyConvex(score, col_rg, r) => Cardinality(GoodInRow(col_rg, r)) = 1

\* what FilterRow must return on a strictly convex row
ConvexSurvivors(sc, ms, rg, r) ==
  LET k == ArgMin(sc, rg, r) IN
  IF k # rg.start /\ k # rg.end - 1 /\ sc[r][k] < ms THEN {k} ELSE {}

\* C5 (amended): with NMS on, a strictly convex row with a unique minimum
\* keeps exactly its minimum when the minimum is below max_score and lies in
\* neither the first nor the last column of the active window, and keeps no
\* cell otherwise; the same holds of FilterRow on every row of up to five
\* cells.
C5_ConvexRowSurvivors ==
  /\ nms => \A r \in 0 .. rows - 1 :
              StrictlyConvex(score, col_rg, r) =>
                GoodInRow(col_rg, r) = ConvexSurvivors(score, max_score, col_rg, r)
  /\ ncalls = 0 =>
       \A row \in TestRows :
         StrictlyConvex(RowImage(row), RowRange(row), 0) =>
           FilterRow(RowImage(row), max_score, TRUE, RowRange(row), 0)
             = ConvexSurvivors(RowImage(row), max_score, RowRange(row), 0)

\* a strictly convex row of three cells kept exactly its interior minimum
C5_Witness ==
  /\ nms
  /\ add_ret.status = "ok"
  /\ \E r \in 0 .. rows - 1 :
       /\ RangeSize(col_rg) >= 3
       /\ StrictlyConvex(score, col_rg, r)
       /\ Cardinality(GoodInRow(col_rg, r)) = 1

\* C6: an accepted Add changes no score outside the active column range,
\* the good cells of the range are among its non-NaN cells, n1 and n2 are
\* the numbers of non-NaN and of good cells of the range (whatever gsize),
\* and n2 <= n1 <= nrows * ncols_active.
ScoredCells == {px \in WindowCells(col_rg) : ~IsNaN(score[px[2]][px[1]])}
GoodCells == {px \in WindowCells(col_rg) : IsGood(px)}
C6_GridCounts ==
  [][ (ncalls' = ncalls + 1 /\ add_ret'.status = "ok") =>
        /\ \A r \in 0 .. rows - 1, c \in 0 .. cols - 1 :
             ~InWindow(col_rg', c) => score'[r][c] = score[r][c]
        /\ Cardinality(WindowCells(col_rg')) = rows * RangeSize(col_rg')
        /\ GoodCells' \subseteq ScoredCells'
        /\ add_ret'.n1 = Cardinality(ScoredCells')
        /\ add_ret'.n2 = Cardinality(GoodCells')
        /\ add_ret'.n2 <= add_ret'.n1
        /\ add_ret'.n1 <= rows * RangeSize(col_rg') ]_vars

\* a second slice, not starting at column 0, of which Filter kept some but
\* not all scored cells, while a score of the first slice stays outside the
\* active range
C6_Witness ==
  /\ add_ret.status = "ok"
  /\ ncalls = 2
  /\ col_rg.start > 0
  /\ 0 < add_ret.n2
  /\ add_ret.n2 < add_ret.n1
  /\ \E r \in 0 .. rows - 1, c \in 0 .. cols - 1 :
       ~InWindow(col_rg, c) /\ ~IsNaN(score[r][c])

\* ------------------------------------------------------------------
\* Claims about ImuTrajectory, ImuPreintegration and GicpCost (checked
\* under SpecImu)
FrontTime == states[1].time
BackTime == states[Len(states)].time
NoImuAfter(t) == FindNextImu(buf, t) < 0

\* C7 (as stated): a Predict(t0, dt) called when the buffer is empty or holds
\* no sample with time > t0 returns 0 and leaves every trajectory state
\* unchanged.
C7_PredictWithoutImuIsNoop ==
  [][ (call'.op = "Predict" /\ NoImuAfter(call'.t0)) =>
        /\ call'.status = "ok"
        /\ call'.val = 0
        /\ states' = states ]_vars

\* C8 (as stated): an UpdatePreint called when no IMU sample is newer than the
\* trajectory's front time fails, leaves no trajectory attached to the cost
\* and NumResiduals at 3 * |matches|, and an operator() called next writes
\* only the per-match residuals.
C8_InsufficientImuIsGicpOnly ==
  [][ /\ (call'.op = "UpdatePreint" /\ NoImuAfter(FrontTime)) =>
           /\ call'.status = "abort"
           /\ ~ptraj'
           /\ NumResiduals' = kResidualDim * Len(cmatches')
      /\ (/\ call.op = "UpdatePreint" /\ call.status = "abort"
          /\ NoImuAfter(FrontTime)
          /\ call'.op = "operator()") =>
           resid' = MatchResiduals' ]_vars

\* the samples of the buffer inside the closed window, and strictly inside
InWindowSamples == {i \in 0 .. Len(buf) - 1 :
                      FrontTime <= ImuAt(buf, i).time /\ ImuAt(buf, i).time <= BackTime}
InteriorSamples == {i \in 0 .. Len(buf) - 1 :
                      FrontTime < ImuAt(buf, i).time /\ ImuAt(buf, i).time < BackTime}

\* C9 (as stated): after Reset and Compute over [t0, t1] returned, n (the
\* value returned) is the number of samples whose time lies in [t0, t1],
\* whenever there is such a sample.
C9_CountIsSamplesInWindow ==
  (call.op = "UpdatePreint" /\ call.status = "ok" /\ InWindowSamples # {}) =>
    /\ preint.n = Cardinality(InWindowSamples)
    /\ call.val = preint.n

\* C9 (amended): over a time-increasing buffer with at least one sample
\* strictly between t0 and t1, Reset and Compute return, and n (the value
\* returned) is the number of samples strictly between t0 and t1, plus one
\* for the final fractional step.
C9_CountIsInteriorPlusOne ==
  (call.op = "UpdatePreint" /\ InteriorSamples # {}) =>
    /\ call.status = "ok"
    /\ preint.n = Cardinality(InteriorSamples) + 1
    /\ call.val = preint.n

\* Compute returned after integrating two samples inside the window and
\* stopping in front of a sample that is not before t1
C9_Witness ==
  /\ call.op = "UpdatePreint"
  /\ call.status = "ok"
  /\ Cardinality(InteriorSamples) >= 2
  /\ \E i \in 0 .. Len(buf) - 1 : ImuAt(buf, i).time >= BackTime
  /\ preint.n = 3

\* C10 (as stated): over a time-increasing buffer with a sample newer than t0
\* and t1 > t0, Reset and Compute return, every Integrate call has dt > 0, no
\* sample later than t1 is integrated, and the duration is t1 - t0.
C10_WindowCoveredExactly ==
  (call.op = "UpdatePreint" /\ FrontTime < BackTime /\ ~NoImuAfter(FrontTime)) =>
    /\ call.status = "ok"
    /\ \A k \in 1 .. Len(steps) : steps[k].dt > 0
    /\ \A k \in 1 .. Len(steps) : steps[k].time <= BackTime
    /\ preint.duration = BackTime - FrontTime


\* C18: after a Predict that found a sample newer than t0, the buffer index
\* used for cell i >= 1 is the previous one (ibuf0 for cell 1), plus one iff
\* that sample is earlier than the cell time t0 + i*dt, clamped to the last
\* sample; so every index lies in [ibuf0, size-1], the indices never
\* decrease and advance by at most one per cell, and the returned count
\* ibuf - ibuf0 + 1 is between 1 and min(N, size - ibuf0).
PrevIdx(k) == IF k = 1 THEN FindNextImu(buf, call.t0) ELSE pidx[k - 1]
CellTime(k) == call.t0 + call.dt * k
Min(a, b) == IF a <= b THEN a ELSE b
C18_PredictIndexClamped ==
  (call.op = "Predict" /\ call.status = "ok") =>
    LET ibuf0 == FindNextImu(buf, call.t0) IN
    /\ ibuf0 >= 0
    /\ Len(pidx) = Len(states) - 1
    /\ \A k \in 1 .. Len(pidx) :
         /\ ibuf0 <= pidx[k] /\ pidx[k] <= Len(buf) - 1
         /\ pidx[k] - PrevIdx(k) \in {0, 1}
         /\ pidx[k] = Min(Len(buf) - 1,
                          IF ImuAt(buf, PrevIdx(k)).time < CellTime(k)
                          THEN PrevIdx(k) + 1 ELSE PrevIdx(k))
    /\ call.val = (IF pidx = <<>> THEN ibuf0 ELSE pidx[Len(pidx)]) - ibuf0 + 1
    /\ 1 <= call.val
    /\ call.val <= Min(Len(states), Len(buf) - ibuf0)

\* a Predict over three cells that advanced the index once and then had an
\* overshoot clamped to the last sample
C18_Witness ==
  /\ call.op = "Predict" /\ call.status = "ok"
  /\ Len(pidx) = 2
  /\ pidx[1] = PrevIdx(1) + 1
  /\ pidx[2] = Len(buf) - 1
  /\ pidx[2] = pidx[1]
  /\ ImuAt(buf, pidx[1]).time < CellTime(2)

\* ------------------------------------------------------------------
\* Claims about the trajectory updates (checked under SpecTraj)
RigidStep == call'.op = "RigidUpdateTraj" /\ nupd' = nupd + 1
LinearStep == call'.op = "LinearUpdateTraj" /\ nupd' = nupd + 1

\* C11: GicpRigidCost::UpdateTraj changes rot, pos and vel of state[0] only:
\* the time of state[0], every field of states 1..N-1, the gravity vector and
\* the extrinsic stay as they were.
C11_RigidTouchesFirstStateOnly ==
  [][ RigidStep =>
        /\ Len(states') = Len(states)
        /\ states'[1].time = states[1].time
        /\ \A i \in 2 .. Len(states) : states'[i] = states[i]
        /\ g_pano' = g_pano
        /\ T_imu_lidar' = T_imu_lidar ]_vars

\* a rigid update of a predicted trajectory of at least three states changed
\* rot, pos and vel of state[0]
C11_Witness ==
  /\ call.op = "RigidUpdateTraj"
  /\ Len(states) >= 3
  /\ Duration > 0
  /\ error.r0 # 0 /\ error.p0 # Zero2
  /\ states[1].pos # states[2].pos
  /\ states[1].vel # Zero2
  /\ states[2].rot # states[3].rot

\* C12 (as stated): GicpRigidCost::UpdateTraj with an all-zero error leaves
\* every trajectory state identical, whatever the trajectory's duration.
C12_ZeroCorrectionIsIdentity ==
  [][ (RigidStep /\ error = ZeroError) => states' = states ]_vars

\* C13: after GicpLinearCost::UpdateTraj on N >= 2 states, state i has
\* pos = eR * pos + (i/(N-1)) * p0, every interior state i has
\* vel_i = (pos_{i+1} - pos_i)/(time_{i+1} - time_i) from the corrected
\* positions, and the last velocity is the mean of the interior velocities
\* (the mean accumulator's initial zero when there is none).
RECURSIVE VSum(_, _, _)
VSum(st, lo, hi) == IF lo > hi THEN Zero2 ELSE VAdd(st[lo].vel, VSum(st, lo + 1, hi))
C13_LinearWeightsAndVelocities ==
  [][ LinearStep =>
        LET N == Len(states) IN
        /\ Len(states') = N
        /\ \A i \in 0 .. N - 1 :
             ImuAt(states', i).pos =
               VAdd(RotVec(error.r0, ImuAt(states, i).pos),
                    VDiv(VScale(i, error.p0), N - 1))
        /\ ImuAt(states', 0).pos = RotVec(error.r0, ImuAt(states, 0).pos)
        /\ ImuAt(states', N - 1).pos =
             VAdd(RotVec(error.r0, ImuAt(states, N - 1).pos), error.p0)
        /\ \A i \in 1 .. N - 2 :
             ImuAt(states', i).vel =
               VDiv(VSub(ImuAt(states', i + 1).pos, ImuAt(states', i).pos),
                    ImuAt(states', i + 1).time - ImuAt(states', i).time)
        /\ ImuAt(states', N - 1).vel =
             (IF N = 2 THEN Zero2 ELSE VDiv(VSum(states', 2, N - 1), N - 2)) ]_vars

\* a linear update with a rotation and a translation of a predicted trajectory
\* of four states: the positions are spread along the correction, the two
\* interior velocities are finite and not zero and the last one is their mean
C13_Witness ==
  /\ call.op = "LinearUpdateTraj"
  /\ Len(states) = 4
  /\ Duration > 0
  /\ error.p0 # Zero2 /\ error.r0 # 0
  /\ states[2].pos # states[3].pos
  /\ states[2].vel # Zero2
  /\ states[2].vel[1] < FInf /\ states[2].vel[2] < FInf
  /\ states[4].vel = VDiv(VAdd(states[2].vel, states[3].vel), 2)
  /\ states[4].vel # VAdd(states[2].vel, states[3].vel)

\* ------------------------------------------------------------------
\* Claims about match collection and evaluation (checked under SpecCost)
OkCells == {i \in 0 .. total - 1 : Ok(matches[i])}
Stored == {<<l, out[l].val>> : l \in DOMAIN out}
NumMatches == Len(cmatches)
\* what one complete evaluation stores, whatever the order of the blocks
ExpectedOut ==
  LET m == NumMatches
      J == IF opc.J THEN {"kR0", "kP0"} ELSE {}
      gicp == {<<<<"r", k, "-">>, <<"gicp", k \div 3>>>> : k \in 0 .. 3 * m - 1} \cup
              {<<<<"J", 3 * i, b>>, <<"gicp", i>>>> : i \in 0 .. m - 1, b \in J}
      imu == IF ~ptraj THEN {}
             ELSE IF opc.variant = "rigid"
             THEN {<<<<"r", 3 * m + k, "-">>, <<"gamma", 0>>>> : k \in 0 .. 2} \cup
                  {<<<<"r", 3 * m + 3 + k, "-">>, <<"alpha", 0>>>> : k \in 0 .. 2} \cup
                  {<<<<"J", 3 * m + 3, b>>, <<"alpha", 0>>>> : b \in J}
             ELSE {<<<<"r", 3 * m + k, "-">>, <<"alpha", 0>>>> : k \in 0 .. 2} \cup
                  {<<<<"J", 3 * m, b>>, <<"alpha", 0>>>> : b \in J}
  IN gicp \cup imu

\* C15: in operator() of both variants, under every partition into blocks and
\* every interleaving, match i writes only residual entries [3i, 3i+3) and
\* Jacobian rows [3i, 3i+3), no entry is written by two different tasks, the
\* inertial block is written only after the loop at rows >= 3 * |matches|, and
\* the final contents do not depend on the task order.
C15_DisjointStripes ==
  call.op \in {"operator() begin", "split", "match", "operator() end"} =>
  /\ \A l \in DOMAIN out :
       /\ Cardinality(out[l].by) = 1
       /\ out[l].val[1] = "gicp" =>
            /\ 3 * out[l].val[2] <= l[2] /\ l[2] < 3 * out[l].val[2] + 3
            /\ out[l].by # {Caller}
       /\ out[l].val[1] # "gicp" =>
            /\ opc.phase = "done"
            /\ tasks = {}
            /\ l[2] >= 3 * NumMatches
            /\ out[l].by = {Caller}
  /\ opc.phase = "done" => Stored = ExpectedOut

\* an evaluation with a Jacobian and an attached trajectory finished after its
\* four matches were run by more than one block, a later block first
C15_Witness ==
  /\ opc.phase = "done"
  /\ opc.J /\ ptraj
  /\ NumMatches = 4
  /\ \E l1, l2 \in DOMAIN out :
       /\ out[l1].val[1] = "gicp" /\ out[l2].val[1] = "gicp"
       /\ out[l1].by # out[l2].by

\* C16 (as stated): for a cost constructed with gsize <= 0 the grain used by
\* operator() is at least the number of matches and positive, whatever
\* UpdateMatches collected after construction; for gsize > 0 the grain is
\* gsize + 2 and every task covers at least three matches.
C16_GrainCoversMatches ==
  call.op = "operator() begin" =>
    IF user_gsize <= 0
    THEN gsize_ >= NumMatches /\ gsize_ > 0
    ELSE /\ gsize_ = user_gsize + 2
         /\ \A t \in tasks : t.blk[2] - t.blk[1] >= 3

\* C17: after UpdateMatches the match list holds exactly the cells for which
\* Ok() holds, each once and in row-major order, whatever it held before;
\* NumResiduals counts 3 per Ok cell (and the 6 inertial ones with a trajectory
\* attached) and the grid's cell array keeps its ncols * nrows entries.
C17_MatchesAreOkCells ==
  [][ call'.op = "UpdateMatches" =>
        /\ {cmatches'[k] : k \in 1 .. Len(cmatches')} = OkCells
        /\ \A j, k \in 1 .. Len(cmatches') : j < k => cmatches'[j] < cmatches'[k]
        /\ NumResiduals' = 3 * Cardinality(OkCells) + (IF ptraj THEN 6 ELSE 0)
        /\ matches' = matches
        /\ Cardinality(DOMAIN matches') = cols * rows ]_vars

\* an UpdateMatches with a trajectory attached, on a grid holding a good cell
\* without pano statistics, a reset cell and two Ok cells apart from each other
C17_Witness ==
  /\ call.op = "UpdateMatches"
  /\ cmatches = <<1, 3>>
  /\ matches[0].mc_g_ok /\ ~matches[0].mc_p_ok
  /\ matches[2] = ResetMatch
  /\ ptraj

\* ------------------------------------------------------------------
\* Claims about pose interpolation (checked under SpecInterp)

\* C19: InterpSweepPoses runs only with sweep_tfs.size() = ncols * w_c, writes
\* every sweep column exactly once, column i * w_c + j from tfs[i] and
\* tfs[i+1] at fraction j / w_c by the task owning cell i, so that the pose at
\* column i * w_c equals tfs[i] for every cell i.
C19_InterpCoversEveryColumnOnce ==
  LET w == cell_size.width
      ncols == Len(tfs) - 1
  IN /\ interp.status \in {"loop", "done"} =>
          /\ Len(sweep_tfs) = ncols * w
          /\ \A c \in DOMAIN sweep_tfs : sweep_tfs[c].n <= 1
          /\ \A c \in DOMAIN sweep_tfs :
               sweep_tfs[c].n = 1 =>
                 /\ sweep_tfs[c].by[1] <= (c - 1) \div w
                 /\ (c - 1) \div w < sweep_tfs[c].by[2]
     /\ interp.status = "done" =>
          /\ \A i \in 0 .. ncols - 1, j \in 0 .. w - 1 :
               /\ sweep_tfs[i * w + j + 1].n = 1
               /\ sweep_tfs[i * w + j + 1].tf[1] * w =
                    tfs[i + 1][1] * (w - j) + tfs[i + 2][1] * j
               /\ sweep_tfs[i * w + j + 1].tf[2] * w =
                    tfs[i + 1][2] * (w - j) + tfs[i + 2][2] * j
          /\ \A i \in 0 .. ncols - 1 : sweep_tfs[i * w + 1].tf = tfs[i + 1]

\* an interpolation over cells two columns wide and poses that differ from
\* cell to cell finished after its cells were run by different blocks
C19_Witness ==
  /\ interp.status = "done"
  /\ cell_size.width = 2
  /\ tfs[2] # tfs[3]
  /\ tfs[2][2] - tfs[1][2] # tfs[3][2] - tfs[2][2]
  /\ sweep_tfs[1].by # sweep_tfs[6].by
  /\ sweep_tfs[4].tf # tfs[2] /\ sweep_tfs[4].tf # tfs[3]

\* ------------------------------------------------------------------
\* Claims about the Timer (checked under SpecTimer)

\* C20: under a non-decreasing clock the timer runs right after construction;
\* Elapsed() of a stopped timer is the total time spent running since the most
\* recent Start and does not change while the clock advances; a Stop on a
\* stopped timer and a Resume on a running timer change nothing; Elapsed()
\* never changes the running flag and is never negative.
C20_TimerAccumulates ==
  /\ (call.op = "none" => running_)
  /\ [][ /\ (call'.op = "Elapsed" /\ ~running_) => elapsed' = ran
         /\ (call'.op = "Elapsed" /\ running_) => elapsed' = ran
         /\ (call'.op = "Tick" /\ ~running_) => time_ns_' = time_ns_
         /\ (call'.op = "Stop" /\ ~running_) => <<running_, time_ns_>>' = <<running_, time_ns_>>
         /\ (call'.op = "Resume" /\ running_) => <<running_, time_ns_>>' = <<running_, time_ns_>>
         /\ call'.op = "Elapsed" =>
              /\ running_' = running_ /\ time_ns_' = time_ns_
              /\ elapsed' >= 0 ]_vars

\* Elapsed() on a stopped timer that ran for 2 of the ticks up to clock time
\* 6, the clock having advanced while it ran and while it was stopped
C20_Witness ==
  /\ call.op = "Elapsed"
  /\ ~running_
  /\ elapsed = 2
  /\ ran = 2
  /\ now = 6
  /\ time_ns_ = 2

\* ------------------------------------------------------------------
\* Claims about the odometry node (checked under SpecNode)
SweepToPano == {k \in 1 .. Len(sent) : sent[k].frame = "pano"}

\* C14: in the per-slice callback, when registration reports a solution that
\* is not usable the pose estimate after the callback equals the estimate
\* before registration and no sweep-to-pano transform is broadcast; when the
\* solution is usable the new estimate is kept and broadcast.
C14_InfeasibleSolveReverted ==
  [][ (call'.op = "CameraCb" /\ reg'.ran) =>
        IF reg'.good
        THEN /\ T_p_s_' = reg'.sol
             /\ \E k \in SweepToPano' : sent'[k].tf = reg'.sol
        ELSE /\ T_p_s_' = T_p_s_
             /\ SweepToPano' = {} ]_vars

\* a callback whose registration moved the solver's pose away from a non-zero
\* estimate and was reported unusable: only the pano-to-odom transform is sent
C14_Witness ==
  /\ call.op = "CameraCb"
  /\ reg.ran /\ ~reg.good
  /\ T_p_s_ = 2
  /\ reg.sol = 1
  /\ Len(sent) = 1

\* ------------------------------------------------------------------
\* Claims about the inertial block of operator() (checked under SpecCost)
Evaluated == call.op = "operator() end" /\ ptraj
JBlocks == {"kR0", "kP0"}
\* the output locations of Jacobian row k: a 3x3 block starting at most two
\* rows above it, in each parameter block
RowWritten(k) ==
  \A b \in JBlocks : \E row \in k - 2 .. k : <<"J", row, b>> \in DOMAIN out

\* C21 (as stated): in GicpRigidCost::operator() with a trajectory attached and
\* a Jacobian requested, the gamma block is written at rows [offset, offset+3)
\* and the alpha block at rows [offset+3, offset+6), offset = 3 * |matches|,
\* so all six inertial Jacobian rows are written and no block overwrites
\* another.
C21_RigidInertialJacobianLayout ==
  (Evaluated /\ opc.variant = "rigid" /\ opc.J) =>
    \A b \in JBlocks :
      /\ <<"J", Offset, b>> \in DOMAIN out
      /\ out[<<"J", Offset, b>>].val = <<"gamma", 0>>
      /\ <<"J", Offset + 3, b>> \in DOMAIN out
      /\ out[<<"J", Offset + 3, b>>].val = <<"alpha", 0>>

\* C22 (as stated): for both variants, with a trajectory attached, one call of
\* operator() writes each of the NumResiduals() residual entries and, when a
\* Jacobian is requested, each of the NumResiduals() Jacobian rows.
C22_EveryResidualWritten ==
  Evaluated =>
    \A k \in 0 .. NumResiduals - 1 :
      /\ <<"r", k, "-">> \in DOMAIN out
      /\ opc.J => RowWritten(k)

====
